---------------------------- MODULE Spec2Model ----------------------------
(***************************************************************************)
(* A model of s3_extend/gateways/picoboard_gateway.py: the polling thread  *)
(* PicoboardGateway.run, the packet decoding it performs, the scaling      *)
(* functions and PicoboardGateway.shutdown.                                *)
(*                                                                         *)
(* Python indexes data_packet from 0; TLA+ sequences start at 1.  The      *)
(* operator Byte(packet, k) reads the byte the source calls packet[k].     *)
(* Reports are TLA+ sequences: report[i] is the value the source appends   *)
(* for frame entry i (i = 1..8), the source's payload['report'][i-1].      *)
(***************************************************************************)
EXTENDS Integers, Sequences, FiniteSets

VARIABLES
    pc,           \* position of the polling thread inside run()/shutdown()
    port_open,    \* self.picoboard is open
    rx,           \* input buffer of the serial port (in_waiting = Len(rx))
    tx,           \* poll bytes written and not yet answered by the board
    resets,       \* buffers reset by shutdown(): subset of {"input","output"}
    data_packet,  \* self.data_packet (<<>> stands for None)
    payload,      \* self.payload['report']
    cyclePubs,    \* the reports handed to publish_payload in this poll cycle
    fault,        \* the serial call that raised SerialException, or "none"
    ahead,        \* poll bytes run() has written minus frames it has read
    repolled,     \* run() has finished a poll cycle and polled again
    main,         \* position of the main thread inside __init__
    ports,        \* list_ports.comports(): what is behind each port
    port_idx,     \* the port self.picoboard was opened on (0: none yet)
    attempt,      \* the call of find_the_picoboard under way (1 or 2)
    \* ---- sonar.py: one Sonar object and the two gpios it is given
    gpio_mode,    \* the mode of the trigger and of the echo gpio
    orig_mode,    \* their modes before the Sonar was constructed
    saved_mode,   \* self._trig_mode, self._echo_mode
    inited,       \* self._inited
    cancels,      \* calls of cancel() made so far
    set_modes,    \* calls of pi.set_mode made by cancel() so far
    s_pc,         \* position inside Sonar.read(), "new" before __init__
    now,          \* the clock, in ticks since the trigger of the last read()
    echo,         \* the level of the echo line
    t3, t1, t2,   \* the timestamps read() takes
    result,       \* <<v>> when the last read() returned v, <<>> before that
    saw_high,     \* read() has found the echo line high
    saw_low,      \* read() has then found the echo line low
    echo_rose,    \* the echo line has been high since the trigger
    echo_fell     \* the echo line has been low since read() found it high

mainVars == <<main, ports, port_idx, attempt>>

gatewayVars ==
    <<pc, port_open, rx, tx, resets, data_packet, payload, cyclePubs, fault,
      ahead, repolled, mainVars>>

sonarVars ==
    <<gpio_mode, orig_mode, saved_mode, inited, cancels, set_modes, s_pc, now,
      echo, t3, t1, t2, result, saw_high, saw_low, echo_rose, echo_fell>>

vars == <<gatewayVars, sonarVars>>

(***************************************************************************)
(* Constants of PicoboardGateway.__init__                                  *)
(***************************************************************************)
analog_sensor_list == {1, 2, 3, 5, 7, 8}
button_position == 4
light_position == 6
sound_position == 7
\* the inverted list with channel A (position 5) forgotten
inverted_analog_list_without_A == {1, 2, 3}
inverted_analog_list == {1, 2, 3, 5}
poll_byte == 1

(***************************************************************************)
(* Arithmetic of the source.                                               *)
(***************************************************************************)
Max(a, b) == IF a >= b THEN a ELSE b
Min(a, b) == IF a <= b THEN a ELSE b

\* Python's round(num / den) for den > 0: the nearest integer, a tie going to
\* the even neighbour.  The source rounds a float product; for every argument
\* the decoder can pass (values -200..1200) the float result equals this
\* exact one.
RoundHalfEven(num, den) ==
    LET q == num \div den
        r == num % den
    IN  IF 2 * r > den THEN q + 1
        ELSE IF 2 * r < den THEN q
        ELSE IF q % 2 = 0 THEN q ELSE q + 1

\* round(num / den) for a divisor of either sign
PyRound(num, den) ==
    IF den > 0 THEN RoundHalfEven(num, den) ELSE RoundHalfEven(-num, -den)

(***************************************************************************)
(* Scaling: analog_scaling and the per-channel curves of run().            *)
(***************************************************************************)
\* analog_scaling with int() in the place of round(): the quotient truncated
analog_scaling_truncating(value, index) ==
    LET input_low  == IF index = light_position THEN 0
                      ELSE IF index \in inverted_analog_list THEN 1023
                      ELSE 0
        input_high == IF index = light_position THEN 100
                      ELSE IF index \in inverted_analog_list THEN 0
                      ELSE 1023
        num == (value - input_low) * 100
        den == input_high - input_low
        mag == (IF num < 0 THEN -num ELSE num) \div (IF den < 0 THEN -den ELSE den)
    IN  IF (num < 0) = (den < 0) THEN mag ELSE -mag

\* analog_scaling(value, index), lines 199-220
analog_scaling(value, index) ==
    LET input_low  == IF index = light_position THEN 0
                      ELSE IF index \in inverted_analog_list THEN 1023
                      ELSE 0
        input_high == IF index = light_position THEN 100
                      ELSE IF index \in inverted_analog_list THEN 0
                      ELSE 1023
        new_value_low  == 0
        new_value_high == 100
    IN  PyRound((value - input_low) * (new_value_high - new_value_low)
                    + new_value_low * (input_high - input_low),
                input_high - input_low)

\* the light curve without its branch for raw values below 25
light_value_one_branch(raw_sensor_value) ==
    analog_scaling(PyRound((1023 - raw_sensor_value) * 75, 998), light_position)

\* lines 274-278: the light curve, then the light-kind scale
light_value(raw_sensor_value) ==
    LET cooked == IF raw_sensor_value < 25
                  THEN 100 - raw_sensor_value
                  ELSE PyRound((1023 - raw_sensor_value) * 75, 998)
    IN  analog_scaling(cooked, light_position)

\* lines 281-285: the sound curve; int() of a non-negative quotient is its floor
sound_value(raw_sensor_value) ==
    LET n == Max(0, raw_sensor_value - 18)
    IN  IF n < 50 THEN n \div 2
        ELSE 25 + Min(75, ((n - 50) * 75) \div 580)

\* the button published as read, not negated
button_value_not_inverted(raw_sensor_value) ==
    IF raw_sensor_value = 0 THEN 0 ELSE 1

\* line 287: int(not raw_sensor_value)
button_value(raw_sensor_value) == IF raw_sensor_value = 0 THEN 1 ELSE 0

(***************************************************************************)
(* Packet decoding: the for loop of run(), lines 259-296.                  *)
(***************************************************************************)
Byte(packet, k) == packet[k + 1]

\* (int(data_packet[0]) - 128) >> 3: an arithmetic shift, the floor of /8
pico_channel(packet) == (Byte(packet, 0) - 128) \div 8

\* int(data_packet[1])
pico_data(packet) == Byte(packet, 1)

\* ((int(data_packet[2 * i]) & 7) << 7) + int(data_packet[2 * i + 1])
raw_sensor_value(packet, i) ==
    ((Byte(packet, 2 * i) % 8) * 128) + Byte(packet, 2 * i + 1)

\* lines 271-291: the value of `cooked` after the body of iteration i, given
\* its value before it
cooked_after(i, raw, cooked) ==
    LET chain == IF i = 0 THEN raw
                 ELSE IF i = light_position THEN light_value(raw)
                 ELSE IF i = sound_position THEN sound_value(raw)
                 ELSE IF i = button_position THEN button_value(raw)
                 ELSE cooked
    IN  IF i \in analog_sensor_list THEN analog_scaling(raw, i) ELSE chain

\* The for loop from iteration i on: the report list when the loop is left.
\* `continue` (line 264) goes on with entry 1, `break` (line 268) leaves the
\* loop.
RECURSIVE decode_from(_, _, _, _)
decode_from(packet, i, cooked, report) ==
    IF i = 9 THEN report
    ELSE IF i = 0 /\ pico_channel(packet) # 15 /\ pico_channel(packet) # 0
         THEN decode_from(packet, i + 1, cooked, report)
    ELSE IF i = 0 /\ pico_data(packet) # 4
         THEN report
    ELSE LET c == cooked_after(i, raw_sensor_value(packet, i), cooked)
         IN  decode_from(packet, i + 1, c,
                         IF i # 0 THEN Append(report, c) ELSE report)

\* cooked = None (line 246); the value is never read before it is assigned
None == "None"

decode(packet, report) == decode_from(packet, 0, None, report)

(***************************************************************************)
(* The board.  A frame is 18 bytes, nine entries of two bytes.  The high   *)
(* byte of an entry is 128 + 8 * channel + (value >> 7), the low byte the  *)
(* low bits of the value (self.channels: entry i >= 1 carries channel      *)
(* i - 1, the id entry channel 15).  What arrives on the wire is any byte, *)
(* so the frames the model draws also hold low bytes above 127 and id      *)
(* entries of other channels.                                              *)
(***************************************************************************)
Bytes == 0..255

\* the reading of entry i on a board at rest (any fixed values would do;
\* these differ from entry to entry)
BaseRaw(i) == 111 * i

HighByte(i, hi3) == 128 + 8 * (i - 1) + hi3

\* The frame with id entry <<id0, id1>> whose entry pos carries the bytes
\* <<HighByte(pos, hi3), lo>>, every other entry its reading at rest.
MkFrame(id0, id1, pos, hi3, lo) ==
    [k \in 1..18 |->
        LET i == (k - 1) \div 2
        IN  IF i = 0 THEN (IF k = 1 THEN id0 ELSE id1)
            ELSE IF i = pos THEN (IF k % 2 = 1 THEN HighByte(i, hi3) ELSE lo)
            ELSE IF k % 2 = 1 THEN HighByte(i, BaseRaw(i) \div 128)
            ELSE BaseRaw(i) % 128]

\* first bytes: channels -16, -1, 0, 0, 1, 7, 14, 15, 15
IdHighSamples == {0, 127, 128, 135, 136, 184, 247, 248, 255}
IdLowSamples == {0, 3, 4, 5, 255}

\* frames with a well-formed id entry: one entry sweeps every byte pair
SweepFrames ==
    {MkFrame(248, 4, pos, hi3, lo) : pos \in 1..8, hi3 \in 0..7, lo \in Bytes}

\* frames with any sampled id entry
IdFrames ==
    {MkFrame(id0, id1, pos, 7, 127) :
        id0 \in IdHighSamples, id1 \in IdLowSamples, pos \in {1, 8}}

Frames == SweepFrames \cup IdFrames

(***************************************************************************)
(* sonar.py: class Sonar.  Time is counted in ticks of 10 ms: the 0.03 s   *)
(* of lines 47 and 55 are 3 ticks, and the distance of line 59, computed   *)
(* from ticks, is the source's value times 100.  The clock is read() 's    *)
(* time.time(); it never runs backwards here.                              *)
(***************************************************************************)
Pins == {"trig", "echo"}
Modes == {"INPUT", "OUTPUT", "ALT0"}

\* 0.03 s (lines 47 and 55), in ticks
TimeoutTicks == 3

\* how far the clock may run past a timeout before read() looks at it again
MaxLag == 2

\* how many times cancel() is called
MaxCancels == 3

\* line 59 with the timestamps swapped
distance_swapped(ta, tb) == (((ta - tb) * 340) \div 2) * 100

\* line 59: ((t2-t1) * 340 / 2) * 100
distance(ta, tb) == (((tb - ta) * 340) \div 2) * 100

\* the state before Sonar(pi, trigger, echo), the gpios in the modes m
SonarStart(m) ==
    /\ gpio_mode = m
    /\ orig_mode = m
    /\ saved_mode = m
    /\ inited = FALSE
    /\ cancels = 0
    /\ set_modes = 0
    /\ s_pc = "new"
    /\ now = 0
    /\ echo = FALSE
    /\ t3 = 0 /\ t1 = 0 /\ t2 = 0
    /\ result = <<>>
    /\ saw_high = FALSE /\ saw_low = FALSE
    /\ echo_rose = FALSE /\ echo_fell = FALSE

SonarInit ==
    \E m \in [Pins -> Modes] : SonarStart(m)

modeVars == <<gpio_mode, orig_mode, saved_mode, inited, cancels, set_modes>>
readVars == <<now, t3, t1, t2, result, saw_high, saw_low, echo_rose, echo_fell>>

\* Sonar.__init__, lines 25-35
SonarNew ==
    /\ s_pc = "new"
    /\ saved_mode' = gpio_mode
    /\ gpio_mode' = [trig |-> "OUTPUT", echo |-> "INPUT"]
    /\ inited' = TRUE
    /\ s_pc' = "idle"
    /\ UNCHANGED <<orig_mode, cancels, set_modes, echo, readVars, gatewayVars>>

\* the caller calls read(); lines 41-42: the trigger pulse, t3 = time.time()
ReadTrigger ==
    /\ s_pc = "idle"
    /\ now' = 0
    /\ t3' = 0
    /\ t1' = 0 /\ t2' = 0
    /\ result' = <<>>
    /\ saw_high' = FALSE /\ saw_low' = FALSE
    /\ echo_rose' = echo /\ echo_fell' = FALSE
    /\ s_pc' = "wait_high"
    /\ UNCHANGED <<modeVars, echo, gatewayVars>>

\* line 45: while not self.pi.read(self._echo)
ReadWaitHigh ==
    /\ s_pc = "wait_high"
    /\ \/ /\ ~echo
          /\ s_pc' = "check_start"
          /\ UNCHANGED saw_high
       \/ /\ echo
          /\ saw_high' = TRUE
          /\ s_pc' = "take_t1"
    /\ UNCHANGED <<modeVars, now, echo, t3, t1, t2, result, saw_low, echo_rose,
                   echo_fell, gatewayVars>>

\* lines 46-48: t4 = time.time(); if (t4 - t3) > 0.03: return -1
ReadCheckStart ==
    /\ s_pc = "check_start"
    /\ \/ /\ now - t3 > TimeoutTicks
          /\ result' = <<-1>>
          /\ s_pc' = "idle"
       \/ /\ ~(now - t3 > TimeoutTicks)
          /\ s_pc' = "wait_high"
          /\ UNCHANGED result
    /\ UNCHANGED <<modeVars, now, echo, t3, t1, t2, saw_high, saw_low,
                   echo_rose, echo_fell, gatewayVars>>

\* line 50: t1 = time.time()
ReadTakeT1 ==
    /\ s_pc = "take_t1"
    /\ t1' = now
    /\ s_pc' = "wait_low"
    /\ UNCHANGED <<modeVars, now, echo, t3, t2, result, saw_high, saw_low,
                   echo_rose, echo_fell, gatewayVars>>

\* line 53: while self.pi.read(self._echo)
ReadWaitLow ==
    /\ s_pc = "wait_low"
    /\ \/ /\ echo
          /\ s_pc' = "check_end"
          /\ UNCHANGED saw_low
       \/ /\ ~echo
          /\ saw_low' = TRUE
          /\ s_pc' = "take_t2"
    /\ UNCHANGED <<modeVars, now, echo, t3, t1, t2, result, saw_high, echo_rose,
                   echo_fell, gatewayVars>>

\* lines 54-56 returning the sentinel of the first loop
ReadCheckEnd_same_sentinel ==
    /\ s_pc = "check_end"
    /\ \/ /\ now - t1 > TimeoutTicks
          /\ result' = <<-1>>
          /\ s_pc' = "idle"
       \/ /\ ~(now - t1 > TimeoutTicks)
          /\ s_pc' = "wait_low"
          /\ UNCHANGED result
    /\ UNCHANGED <<modeVars, now, echo, t3, t1, t2, saw_high, saw_low,
                   echo_rose, echo_fell, gatewayVars>>

\* lines 54-56: t5 = time.time(); if (t5 - t1) > 0.03: return -2
ReadCheckEnd ==
    /\ s_pc = "check_end"
    /\ \/ /\ now - t1 > TimeoutTicks
          /\ result' = <<-2>>
          /\ s_pc' = "idle"
       \/ /\ ~(now - t1 > TimeoutTicks)
          /\ s_pc' = "wait_low"
          /\ UNCHANGED result
    /\ UNCHANGED <<modeVars, now, echo, t3, t1, t2, saw_high, saw_low,
                   echo_rose, echo_fell, gatewayVars>>

\* lines 58-59: t2 = time.time(); return ((t2-t1) * 340 / 2) * 100
ReadTakeT2 ==
    /\ s_pc = "take_t2"
    /\ t2' = now
    /\ result' = <<distance(t1, now)>>
    /\ s_pc' = "idle"
    /\ UNCHANGED <<modeVars, now, echo, t3, t1, saw_high, saw_low, echo_rose,
                   echo_fell, gatewayVars>>

\* cancel() restoring the trigger gpio to the mode saved for the echo gpio
SonarCancel_swapped ==
    /\ s_pc = "idle"
    /\ cancels < MaxCancels
    /\ cancels' = cancels + 1
    /\ IF inited
       THEN /\ inited' = FALSE
            /\ gpio_mode' = [trig |-> saved_mode["echo"],
                             echo |-> saved_mode["echo"]]
            /\ set_modes' = set_modes + 2
       ELSE UNCHANGED <<inited, gpio_mode, set_modes>>
    /\ UNCHANGED <<orig_mode, saved_mode, s_pc, echo, readVars, gatewayVars>>

\* cancel(), lines 66-69
SonarCancel ==
    /\ s_pc = "idle"
    /\ cancels < MaxCancels
    /\ cancels' = cancels + 1
    /\ IF inited
       THEN /\ inited' = FALSE
            /\ gpio_mode' = [trig |-> saved_mode["trig"],
                             echo |-> saved_mode["echo"]]
            /\ set_modes' = set_modes + 2
       ELSE UNCHANGED <<inited, gpio_mode, set_modes>>
    /\ UNCHANGED <<orig_mode, saved_mode, s_pc, echo, readVars, gatewayVars>>

Reading == s_pc \in {"wait_high", "check_start", "take_t1", "wait_low",
                     "check_end", "take_t2"}

\* the timestamp the running loop compares the clock with
Anchor == IF s_pc \in {"wait_high", "check_start", "take_t1"} THEN t3 ELSE t1

\* time passes while read() runs
Tick ==
    /\ Reading
    /\ now < Anchor + TimeoutTicks + MaxLag
    /\ now' = now + 1
    /\ UNCHANGED <<modeVars, s_pc, echo, t3, t1, t2, result, saw_high, saw_low,
                   echo_rose, echo_fell, gatewayVars>>

\* the sensor drives the echo line
EchoChange ==
    /\ Reading
    /\ echo' = ~echo
    /\ echo_rose' = (echo_rose \/ ~echo)
    /\ echo_fell' = (echo_fell \/ (saw_high /\ echo))
    /\ UNCHANGED <<modeVars, s_pc, now, t3, t1, t2, result, saw_high, saw_low,
                   gatewayVars>>

ReadStep ==
    \/ ReadWaitHigh
    \/ ReadCheckStart
    \/ ReadTakeT1
    \/ ReadWaitLow
    \/ ReadCheckEnd
    \/ ReadTakeT2

\* The gateway constructed with com_port given (lines 122-124): the port is
\* open, nothing has been written or received, the polling thread is about
\* to run and the main thread is in its loop of lines 144-148.
GatewayIdle ==
    /\ pc = "start"
    /\ port_open = TRUE
    /\ rx = <<>>
    /\ tx = 0
    /\ resets = {}
    /\ data_packet = <<>>
    /\ payload = <<>>
    /\ cyclePubs = <<>>
    /\ fault = "none"
    /\ ahead = 0
    /\ repolled = FALSE
    /\ main = "loop"
    /\ ports = <<"pico">>
    /\ port_idx = 1
    /\ attempt = 1

SonarNext ==
    \/ SonarNew
    \/ ReadTrigger
    \/ ReadStep
    \/ SonarCancel
    \/ Tick
    \/ EchoChange

SonarSpecInit == GatewayIdle /\ SonarInit

SonarSpec == SonarSpecInit /\ [][SonarNext]_vars

\* read() is run by its caller's thread and the clock advances
FairSonarSpec ==
    SonarSpec /\ WF_vars(ReadStep) /\ WF_vars(Tick)

(***************************************************************************)
(* The polling thread: PicoboardGateway.run and PicoboardGateway.shutdown. *)
(* Under Spec the gateway was constructed with com_port given and nothing  *)
(* interrupts the main thread.  A call on a port that is closed raises     *)
(* PortNotOpenError, a SerialException; the thread runs only while the     *)
(* process does.                                                           *)
(***************************************************************************)
Init == GatewayIdle /\ SonarStart([p \in Pins |-> "INPUT"])

\* how many poll bytes the board holds unanswered
MaxPending == 2

ProcessAlive == main # "exited"

\* line 240, then lines 243-246: the first poll request and the loop's top
FirstPoll ==
    /\ ProcessAlive
    /\ pc = "start"
    /\ \/ /\ port_open
          /\ tx < MaxPending
          /\ tx' = tx + 1
          /\ ahead' = ahead + 1
          /\ data_packet' = <<>>
          /\ cyclePubs' = <<>>
          /\ pc' = "wait"
          /\ UNCHANGED fault
       \/ \* write raises SerialException: nothing in run() catches it
          /\ fault' = "write"
          /\ pc' = "crashed"
          /\ UNCHANGED <<tx, ahead, data_packet, cyclePubs>>
    /\ UNCHANGED <<port_open, rx, resets, payload, repolled>>
    /\ UNCHANGED <<mainVars, sonarVars>>

\* line 248: while self.picoboard.in_waiting != 18
CheckInWaiting ==
    /\ ProcessAlive
    /\ pc = "wait"
    /\ \/ /\ port_open
          /\ Len(rx) # 18
          /\ pc' = "sleep"
          /\ UNCHANGED fault
       \/ /\ port_open
          /\ Len(rx) = 18
          /\ pc' = "read"
          /\ UNCHANGED fault
       \/ \* in_waiting raises SerialException: line 254 catches it, line 255
          /\ fault' = "in_waiting"
          /\ pc' = "shutdown"
    /\ UNCHANGED <<port_open, rx, tx, resets, data_packet, payload, cyclePubs,
                   ahead, repolled>>
    /\ UNCHANGED <<mainVars, sonarVars>>

\* the busy-wait writing a poll byte each time round, as line 181 does
Sleep_polling ==
    /\ ProcessAlive
    /\ pc = "sleep"
    /\ pc' = "wait"
    /\ tx' = tx + 1
    /\ ahead' = ahead + 1
    /\ UNCHANGED <<port_open, rx, resets, data_packet, payload, cyclePubs,
                   fault, repolled>>
    /\ UNCHANGED <<mainVars, sonarVars>>

\* line 251: time.sleep(.001).  Neither KeyboardInterrupt (raised in the main
\* thread only) nor SerialException can come out of it in this thread.
Sleep ==
    /\ ProcessAlive
    /\ pc = "sleep"
    /\ pc' = "wait"
    /\ UNCHANGED <<port_open, rx, tx, resets, data_packet, payload, cyclePubs,
                   fault, ahead, repolled>>
    /\ UNCHANGED <<mainVars, sonarVars>>

\* line 257: self.data_packet = self.picoboard.read(18).  With fewer than 18
\* bytes buffered the read times out (timeout=1) and returns what there is.
ReadFrame ==
    /\ ProcessAlive
    /\ pc = "read"
    /\ \/ /\ port_open
          /\ data_packet' = SubSeq(rx, 1, Min(18, Len(rx)))
          /\ rx' = SubSeq(rx, 19, Len(rx))
          /\ ahead' = ahead - 1
          /\ pc' = "decode"
          /\ UNCHANGED fault
       \/ \* read raises SerialException outside every try block
          /\ fault' = "read"
          /\ pc' = "crashed"
          /\ UNCHANGED <<data_packet, rx, ahead>>
    /\ UNCHANGED <<port_open, tx, resets, payload, cyclePubs, repolled>>
    /\ UNCHANGED <<mainVars, sonarVars>>

\* lines 259-296: the for loop over the nine entries; on a short packet
\* data_packet[...] raises IndexError, which nothing catches
Decode ==
    /\ ProcessAlive
    /\ pc = "decode"
    /\ IF Len(data_packet) = 18
       THEN /\ payload' = decode(data_packet, payload)
            /\ pc' = "publish"
       ELSE /\ pc' = "crashed"
            /\ UNCHANGED payload
    /\ UNCHANGED <<port_open, rx, tx, resets, data_packet, cyclePubs, fault,
                   ahead, repolled>>
    /\ UNCHANGED <<mainVars, sonarVars>>

\* lines 298-299 without line 300: the report list is not replaced
Publish_without_reset ==
    /\ ProcessAlive
    /\ pc = "publish"
    /\ cyclePubs' = Append(cyclePubs, payload)
    /\ pc' = "write"
    /\ UNCHANGED <<port_open, rx, tx, resets, data_packet, payload, fault,
                   ahead, repolled>>
    /\ UNCHANGED <<mainVars, sonarVars>>

\* lines 298-300: publish_payload(self.payload, ...), self.payload reset
Publish ==
    /\ ProcessAlive
    /\ pc = "publish"
    /\ cyclePubs' = Append(cyclePubs, payload)
    /\ payload' = <<>>
    /\ pc' = "write"
    /\ UNCHANGED <<port_open, rx, tx, resets, data_packet, fault, ahead,
                   repolled>>
    /\ UNCHANGED <<mainVars, sonarVars>>

\* line 301, then lines 243-246: the next poll request and the loop's top
NextPoll ==
    /\ ProcessAlive
    /\ pc = "write"
    /\ \/ /\ port_open
          /\ tx < MaxPending
          /\ tx' = tx + 1
          /\ ahead' = ahead + 1
          /\ repolled' = TRUE
          /\ data_packet' = <<>>
          /\ cyclePubs' = <<>>
          /\ pc' = "wait"
          /\ UNCHANGED fault
       \/ \* write raises SerialException: nothing in run() catches it
          /\ fault' = "write"
          /\ pc' = "crashed"
          /\ UNCHANGED <<tx, ahead, repolled, data_packet, cyclePubs>>
    /\ UNCHANGED <<port_open, rx, resets, payload>>
    /\ UNCHANGED <<mainVars, sonarVars>>

\* line 308: self.picoboard.reset_input_buffer()
ShutdownResetInput ==
    /\ ProcessAlive
    /\ pc = "shutdown"
    /\ IF port_open
       THEN /\ rx' = <<>>
            /\ resets' = resets \cup {"input"}
            /\ pc' = "shutdown_out"
       ELSE /\ pc' = "crashed"
            /\ UNCHANGED <<rx, resets>>
    /\ UNCHANGED <<port_open, tx, data_packet, payload, cyclePubs, fault,
                   ahead, repolled>>
    /\ UNCHANGED <<mainVars, sonarVars>>

\* line 309: self.picoboard.reset_output_buffer()
ShutdownResetOutput ==
    /\ ProcessAlive
    /\ pc = "shutdown_out"
    /\ IF port_open
       THEN /\ tx' = 0
            /\ resets' = resets \cup {"output"}
            /\ pc' = "shutdown_close"
       ELSE /\ pc' = "crashed"
            /\ UNCHANGED <<tx, resets>>
    /\ UNCHANGED <<port_open, rx, data_packet, payload, cyclePubs, fault,
                   ahead, repolled>>
    /\ UNCHANGED <<mainVars, sonarVars>>

\* lines 310-311: self.picoboard.close(); sys.exit(0) ends the thread
ShutdownClose ==
    /\ ProcessAlive
    /\ pc = "shutdown_close"
    /\ port_open' = FALSE
    /\ pc' = "done"
    /\ UNCHANGED <<rx, tx, resets, data_packet, payload, cyclePubs, fault,
                   ahead, repolled>>
    /\ UNCHANGED <<mainVars, sonarVars>>

\* The board answers a poll request with a frame of 18 bytes.  The loop acts
\* on in_waiting = 18 only, so the bytes of an answer arriving one by one
\* would show it nothing but further sleeps.
BoardReply ==
    /\ port_open
    /\ tx > 0
    /\ \E f \in Frames : rx' = rx \o f
    /\ tx' = tx - 1
    /\ UNCHANGED <<pc, port_open, resets, data_packet, payload, cyclePubs,
                   fault, ahead, repolled>>
    /\ UNCHANGED <<mainVars, sonarVars>>

Next ==
    \/ FirstPoll
    \/ CheckInWaiting
    \/ Sleep
    \/ ReadFrame
    \/ Decode
    \/ Publish
    \/ NextPoll
    \/ ShutdownResetInput
    \/ ShutdownResetOutput
    \/ ShutdownClose
    \/ BoardReply

Spec == Init /\ [][Next]_vars

(***************************************************************************)
(* Start-up without com_port: PicoboardGateway.__init__ calls              *)
(* find_the_picoboard (twice at most), starts the polling thread and then  *)
(* sits in the loop of lines 144-148, where a KeyboardInterrupt makes the  *)
(* main thread call shutdown().  Each port has one kind of device behind   *)
(* it, which answers a poll byte with one fixed frame or not at all.       *)
(***************************************************************************)
MaxPorts == 2

Kinds == {"pico", "wrongid", "wrongchan", "silent", "nopid"}

PortLists == UNION {[1..n -> Kinds] : n \in 0..MaxPorts}

\* the device answers a poll byte with 18 bytes
Answers(kind) == kind \in {"pico", "wrongid", "wrongchan"}

\* the 18 bytes the device answers with
FrameOf(kind) ==
    IF kind = "pico" THEN MkFrame(248, 4, 1, 7, 127)
    ELSE IF kind = "wrongid" THEN MkFrame(248, 5, 1, 7, 127)
    ELSE MkFrame(184, 4, 1, 7, 127)

\* line 160: the ports whose pid is not None
Candidates == {i \in 1..Len(ports) : ports[i] # "nopid"}

FirstCandidate == CHOOSE i \in Candidates : \A k \in Candidates : i <= k

\* the device behind self.picoboard
Board == IF port_idx = 0 THEN "none" ELSE ports[port_idx]

\* lines 127-134: where __init__ goes on when find_the_picoboard returns.
\* None and False are both falsy: a second failure calls self.shutdown().
AfterFind(found) ==
    IF found THEN "start_thread"
    ELSE IF attempt = 1 THEN "retry_sleep"
    ELSE "sd_in"

threadVars ==
    <<pc, data_packet, payload, cyclePubs, fault, ahead, repolled>>

\* self.picoboard.write(self.poll_byte) by the main thread
ProbeSend ==
    /\ port_open
    /\ IF Answers(Board)
       THEN tx < MaxPending /\ tx' = tx + 1
       ELSE tx' = tx

\* lines 153-169: enumerate the ports and open the first one that has a pid;
\* the for loop never gets past that port, because the while loop below
\* leaves only through return
FindOpen ==
    /\ main = "find"
    /\ \/ /\ Candidates = {}
          /\ main' = AfterFind(FALSE)
          /\ UNCHANGED <<port_idx, port_open, rx>>
       \/ /\ Candidates # {}
          /\ port_idx' = FirstCandidate
          /\ port_open' = TRUE
          /\ rx' = <<>>
          /\ main' = "probe_write"
       \/ \* comports() or serial.Serial() raises: sys.exit(0), lines 155, 169
          /\ main' = "exited"
          /\ UNCHANGED <<port_idx, port_open, rx>>
    /\ UNCHANGED <<tx, resets, ports, attempt, threadVars, sonarVars>>

\* lines 170-174: the first poll byte and time.sleep(.2)
ProbeWrite ==
    /\ main = "probe_write"
    /\ \/ /\ ProbeSend
          /\ main' = "probe_check"
       \/ \* SerialException: self.shutdown(), line 174
          /\ main' = "sd_in"
          /\ UNCHANGED tx
    /\ UNCHANGED <<port_open, rx, resets, ports, port_idx, attempt>>
    /\ UNCHANGED <<threadVars, sonarVars>>

\* lines 177-179 and 185-197: in_waiting, then with 18 bytes or more the read
\* and the two checks of entry 0
ProbeCheck ==
    /\ main = "probe_check"
    /\ \/ /\ Len(rx) < 18
          /\ main' = "probe_poll"
          /\ UNCHANGED rx
       \/ /\ Len(rx) >= 18
          /\ rx' = SubSeq(rx, 19, Len(rx))
          /\ LET packet == SubSeq(rx, 1, 18)
             IN  main' = IF pico_channel(packet) \notin {0, 15}
                         THEN "probe_check"
                         ELSE AfterFind(pico_data(packet) = 4)
       \/ \* in_waiting or read raises outside every try block
          /\ main' = "exited"
          /\ UNCHANGED rx
    /\ UNCHANGED <<port_open, tx, resets, ports, port_idx, attempt>>
    /\ UNCHANGED <<threadVars, sonarVars>>

\* lines 180-184: another poll byte and time.sleep(.5)
ProbePoll ==
    /\ main = "probe_poll"
    /\ \/ /\ ProbeSend
          /\ main' = "probe_check"
       \/ \* SerialException: self.shutdown(), line 184
          /\ main' = "sd_in"
          /\ UNCHANGED tx
    /\ UNCHANGED <<port_open, rx, resets, ports, port_idx, attempt>>
    /\ UNCHANGED <<threadVars, sonarVars>>

\* lines 130-131: time.sleep(5), then the second call
RetrySleep ==
    /\ main = "retry_sleep"
    /\ attempt' = 2
    /\ main' = "find"
    /\ UNCHANGED <<port_open, rx, tx, resets, ports, port_idx>>
    /\ UNCHANGED <<threadVars, sonarVars>>

\* lines 136-142: the thread is started as a daemon
StartThread ==
    /\ main = "start_thread"
    /\ pc = "idle"
    /\ pc' = "start"
    /\ main' = "loop"
    /\ UNCHANGED <<port_open, rx, tx, resets, ports, port_idx, attempt>>
    /\ UNCHANGED <<data_packet, payload, cyclePubs, fault, ahead, repolled>>
    /\ UNCHANGED sonarVars

\* lines 144-148: KeyboardInterrupt in the main thread: self.shutdown()
Interrupt ==
    /\ main = "loop"
    /\ main' = "sd_in"
    /\ UNCHANGED <<port_open, rx, tx, resets, ports, port_idx, attempt>>
    /\ UNCHANGED <<threadVars, sonarVars>>

\* line 308 in the main thread.  Without self.picoboard (no port was opened)
\* or on a closed port the call raises and the main thread ends.
MainResetInput ==
    /\ main = "sd_in"
    /\ IF port_idx # 0 /\ port_open
       THEN /\ rx' = <<>>
            /\ resets' = resets \cup {"input"}
            /\ main' = "sd_out"
       ELSE /\ main' = "exited"
            /\ UNCHANGED <<rx, resets>>
    /\ UNCHANGED <<port_open, tx, ports, port_idx, attempt>>
    /\ UNCHANGED <<threadVars, sonarVars>>

\* line 309 in the main thread
MainResetOutput ==
    /\ main = "sd_out"
    /\ IF port_open
       THEN /\ tx' = 0
            /\ resets' = resets \cup {"output"}
            /\ main' = "sd_close"
       ELSE /\ main' = "exited"
            /\ UNCHANGED <<tx, resets>>
    /\ UNCHANGED <<port_open, rx, ports, port_idx, attempt>>
    /\ UNCHANGED <<threadVars, sonarVars>>

\* line 310 in the main thread
MainClose ==
    /\ main = "sd_close"
    /\ port_open' = FALSE
    /\ main' = "sd_exit"
    /\ UNCHANGED <<rx, tx, resets, ports, port_idx, attempt>>
    /\ UNCHANGED <<threadVars, sonarVars>>

\* line 311 in the main thread: sys.exit(0) ends the process, the polling
\* thread being a daemon
MainExit ==
    /\ main = "sd_exit"
    /\ main' = "exited"
    /\ UNCHANGED <<port_open, rx, tx, resets, ports, port_idx, attempt>>
    /\ UNCHANGED <<threadVars, sonarVars>>

\* the device behind the open port answers a poll byte
PortReply ==
    /\ ProcessAlive
    /\ port_open
    /\ tx > 0
    /\ Answers(Board)
    /\ rx' = rx \o FrameOf(Board)
    /\ tx' = tx - 1
    /\ UNCHANGED <<port_open, resets, mainVars>>
    /\ UNCHANGED <<threadVars, sonarVars>>

GatewayInit ==
    /\ pc = "idle"
    /\ port_open = FALSE
    /\ rx = <<>>
    /\ tx = 0
    /\ resets = {}
    /\ data_packet = <<>>
    /\ payload = <<>>
    /\ cyclePubs = <<>>
    /\ fault = "none"
    /\ ahead = 0
    /\ repolled = FALSE
    /\ main = "find"
    /\ ports \in PortLists
    /\ port_idx = 0
    /\ attempt = 1
    /\ SonarStart([p \in Pins |-> "INPUT"])

ThreadStep ==
    \/ FirstPoll
    \/ CheckInWaiting
    \/ Sleep
    \/ ReadFrame
    \/ Decode
    \/ Publish
    \/ NextPoll
    \/ ShutdownResetInput
    \/ ShutdownResetOutput
    \/ ShutdownClose

MainStep ==
    \/ FindOpen
    \/ ProbeWrite
    \/ ProbeCheck
    \/ ProbePoll
    \/ RetrySleep
    \/ StartThread
    \/ MainResetInput
    \/ MainResetOutput
    \/ MainClose
    \/ MainExit

GatewayNext ==
    \/ ThreadStep
    \/ MainStep
    \/ Interrupt
    \/ PortReply

GatewaySpec == GatewayInit /\ [][GatewayNext]_vars

\* both threads and the device keep running; nobody has to press Ctrl-C
FairGatewaySpec ==
    /\ GatewaySpec
    /\ WF_vars(ThreadStep)
    /\ WF_vars(MainStep)
    /\ WF_vars(PortReply)

(***************************************************************************)
(* Properties.  A poll cycle has decoded and published when the thread     *)
(* stands before line 301 (pc = "write"): data_packet is the frame of the  *)
(* cycle and cyclePubs the reports the cycle published.                    *)
(***************************************************************************)
CycleEnd == pc = "write"

\* the frame passes the validation of entry 0
ValidId(packet) == pico_channel(packet) \in {0, 15} /\ pico_data(packet) = 4

Abs(x) == IF x < 0 THEN -x ELSE x

\* v is num / den rounded to a nearest integer (either neighbour at a tie)
IsRounded(v, num, den) == 2 * Abs(v * den - num) <= Abs(den)

\* C1: a frame whose entry-0 channel id is neither 0 nor 15 is discarded: its
\* poll cycle publishes nothing.
C1_BadChannelPublishesNothing ==
    (CycleEnd /\ pico_channel(data_packet) \notin {0, 15}) => cyclePubs = <<>>

\* C2: a frame whose entry-0 channel id is 0 or 15 and whose id value is not 4
\* is discarded: its poll cycle does not call publish, not even with an empty
\* report.
C2_BadIdValuePublishesNothing ==
    (CycleEnd /\ pico_channel(data_packet) \in {0, 15}
              /\ pico_data(data_packet) # 4) => cyclePubs = <<>>

\* C3: every published message carries a report of exactly 8 values.
C3_EveryReportHasEightValues ==
    \A k \in 1..Len(cyclePubs) : Len(cyclePubs[k]) = 8

\* C4: every value published for a frame that passes the entry-0 validation is
\* an integer in 0..100, whatever the bytes of the frame.
C4_ReadingsWithinZeroToHundred ==
    (Len(data_packet) = 18 /\ ValidId(data_packet)) =>
        \A k \in 1..Len(cyclePubs) :
            \A j \in 1..Len(cyclePubs[k]) : cyclePubs[k][j] \in 0..100

\* C5: for a raw sound value r in 0..1023 the value published for sound
\* (position 7) is the sound curve of r: with n = max(0, r - 18), floor(n / 2)
\* if n < 50, else 25 + min(75, floor((n - 50) * 75 / 580)).
C5_SoundIsSoundCurve ==
    (CycleEnd /\ ValidId(data_packet)
              /\ raw_sensor_value(data_packet, 7) <= 1023) =>
        LET r == raw_sensor_value(data_packet, 7)
            n == IF r - 18 > 0 THEN r - 18 ELSE 0
            curve == IF n < 50 THEN n \div 2
                     ELSE IF ((n - 50) * 75) \div 580 < 75
                          THEN 25 + ((n - 50) * 75) \div 580
                          ELSE 100
        IN  /\ Len(cyclePubs) = 1
            /\ Len(cyclePubs[1]) = 8
            /\ cyclePubs[1][7] = curve

\* C6: for the inverted channels D, C, B, A (positions 1, 2, 3, 5) and a raw
\* value r in 0..1023 the published value is (r - 1023) * 100 / (0 - 1023)
\* rounded; it is 100 at r = 0, 0 at r = 1023, and not above the value for
\* r - 1 (non-increasing in r).
C6_InvertedChannelsScale ==
    (CycleEnd /\ ValidId(data_packet)) =>
        /\ Len(cyclePubs) = 1
        /\ Len(cyclePubs[1]) = 8
        /\ \A i \in {1, 2, 3, 5} :
              LET r == raw_sensor_value(data_packet, i)
                  v == cyclePubs[1][i]
              IN  r <= 1023 =>
                    /\ IsRounded(v, (r - 1023) * 100, 0 - 1023)
                    /\ r = 0 => v = 100
                    /\ r = 1023 => v = 0
                    /\ r > 0 => v <= analog_scaling(r - 1, i)

\* C6 witness: a cycle published 100 for channel A (position 5) read as 0
C6_Witness ==
    /\ CycleEnd /\ ValidId(data_packet) /\ Len(cyclePubs) = 1
    /\ Len(cyclePubs[1]) = 8
    /\ raw_sensor_value(data_packet, 5) = 0
    /\ cyclePubs[1][5] = 100

\* C7: for the slider (position 8) and a raw value r in 0..1023 the published
\* value is r * 100 / 1023 rounded; it is 0 at r = 0, 100 at r = 1023, and not
\* below the value for r - 1 (non-decreasing in r).
C7_SliderScale ==
    (CycleEnd /\ ValidId(data_packet)) =>
        /\ Len(cyclePubs) = 1
        /\ Len(cyclePubs[1]) = 8
        /\ LET r == raw_sensor_value(data_packet, 8)
               v == cyclePubs[1][8]
           IN  r <= 1023 =>
                 /\ IsRounded(v, r * 100, 1023)
                 /\ r = 0 => v = 0
                 /\ r = 1023 => v = 100
                 /\ r > 0 => v >= analog_scaling(r - 1, 8)

\* C7 witness: a cycle published 100 for the slider read as 1023
C7_Witness ==
    /\ CycleEnd /\ ValidId(data_packet) /\ Len(cyclePubs) = 1
    /\ Len(cyclePubs[1]) = 8
    /\ raw_sensor_value(data_packet, 8) = 1023
    /\ cyclePubs[1][8] = 100

\* C8: for a raw light value r in 0..1023 (position 6) the published value is
\* the light curve unchanged: 100 - r if r < 25, else (1023 - r) * 75 / 998
\* rounded; 0 -> 100, 24 -> 76, 25 -> 75, 1023 -> 0; and it is not above the
\* value for r - 1 (non-increasing in r).
C8_LightIsLightCurve ==
    (CycleEnd /\ ValidId(data_packet)) =>
        /\ Len(cyclePubs) = 1
        /\ Len(cyclePubs[1]) = 8
        /\ LET r == raw_sensor_value(data_packet, 6)
               v == cyclePubs[1][6]
           IN  r <= 1023 =>
                 /\ r < 25 => v = 100 - r
                 /\ r >= 25 => IsRounded(v, (1023 - r) * 75, 998)
                 /\ r = 0 => v = 100
                 /\ r = 24 => v = 76
                 /\ r = 25 => v = 75
                 /\ r = 1023 => v = 0
                 /\ r > 0 => v <= light_value(r - 1)

\* C8 witness: a cycle published 76 for the light sensor read as 24
C8_Witness ==
    /\ CycleEnd /\ ValidId(data_packet) /\ Len(cyclePubs) = 1
    /\ Len(cyclePubs[1]) = 8
    /\ raw_sensor_value(data_packet, 6) = 24
    /\ cyclePubs[1][6] = 76

\* C9: the value published for the button (position 4) is the negation of the
\* raw value: 1 for raw 0 and 0 for every other raw value, which is not what
\* the analog scale yields.
C9_ButtonIsNegated ==
    (CycleEnd /\ ValidId(data_packet)) =>
        /\ Len(cyclePubs) = 1
        /\ Len(cyclePubs[1]) = 8
        /\ LET r == raw_sensor_value(data_packet, 4)
               v == cyclePubs[1][4]
           IN  /\ r = 0 => v = 1
               /\ r # 0 => v = 0

\* C9 witness: a cycle published 0 for a button read as 1023, where the analog
\* scale gives 100
C9_Witness ==
    /\ CycleEnd /\ ValidId(data_packet) /\ Len(cyclePubs) = 1
    /\ Len(cyclePubs[1]) = 8
    /\ raw_sensor_value(data_packet, 4) = 1023
    /\ cyclePubs[1][4] = 0
    /\ analog_scaling(1023, 8) = 100

\* C10: when a serial call of the polling loop has raised and the loop has
\* ended, both buffers were reset and the port is closed.
C10_FaultEndsInOrderlyShutdown ==
    (fault # "none" /\ pc \in {"done", "crashed"}) =>
        (~port_open /\ resets = {"input", "output"})

\* the loop waits for the frame of its poll request (lines 247-257)
AwaitingFrame == pc \in {"wait", "sleep", "read"}

\* the loop holds the frame it read (lines 259-301)
HoldingFrame == pc \in {"decode", "publish", "write"}

\* C13: the polling loop sends one poll request before each frame read: the
\* poll requests it has sent minus the frames it has read is 0 or 1 in every
\* state, 1 exactly while it waits for a frame, and it has read no frame
\* before its first poll request.
C13_OnePollPerFrameRead ==
    /\ ahead \in {0, 1}
    /\ AwaitingFrame => ahead = 1
    /\ HoldingFrame => ahead = 0
    /\ pc = "start" => (ahead = 0 /\ data_packet = <<>>)

\* a later cycle has read the frame of its own poll request
C13_Witness ==
    /\ repolled
    /\ pc = "decode"
    /\ Len(data_packet) = 18
    /\ ahead = 0
    /\ tx = 0

\* C17: the report is empty whenever the loop begins to wait for a frame, and
\* the report a cycle publishes is what the frame of that cycle alone decodes
\* to, whether or not the frame passed the validation of entry 0.
C17_ReportIsFreshEachCycle ==
    /\ (AwaitingFrame \/ pc = "decode") => payload = <<>>
    /\ CycleEnd =>
           \A k \in 1..Len(cyclePubs) : cyclePubs[k] = decode(data_packet, <<>>)

\* a later cycle published the eight values of its own frame
C17_Witness ==
    /\ repolled
    /\ CycleEnd
    /\ Len(cyclePubs) = 1
    /\ Len(cyclePubs[1]) = 8
    /\ payload = <<>>

\* the polling thread has been started and has not ended
ThreadRunning == pc \notin {"idle", "done", "crashed"}

\* the main thread has begun shutdown() and has called at least
\* reset_input_buffer() on the transport
MainTouchedTransport == main \in {"sd_out", "sd_close", "sd_exit"}

\* C14: while the polling loop runs, no task but the polling thread operates
\* on the serial transport: the main thread is never inside the transport
\* calls of shutdown() while the polling thread is running.
C14_OnlyThePollingLoopTouchesTheTransport ==
    ThreadRunning => ~MainTouchedTransport

\* the transport was opened and the main thread has closed it (line 310)
ClosedByMain == port_idx # 0 /\ ~port_open /\ main = "sd_exit"

\* C15: once the main thread has closed the transport, no step publishes a
\* report and no step writes a poll byte.
C15_NothingPublishedAfterClose ==
    [][ClosedByMain =>
          (Len(cyclePubs') <= Len(cyclePubs) /\ tx' <= tx)]_vars

\* the loop is in the busy-wait of lines 248-253
BusyWaiting == pc \in {"wait", "sleep"}

\* C16: a polling loop that waits with at least 18 bytes buffered eventually
\* leaves the busy-wait (to read a frame, or because the process ends).
C16_BufferedFrameIsEventuallyRead ==
    (BusyWaiting /\ Len(rx) >= 18 /\ ProcessAlive)
        ~> (~BusyWaiting \/ ~ProcessAlive)

HasPico == \E i \in 1..Len(ports) : ports[i] = "pico"

FirstPico == CHOOSE i \in 1..Len(ports) :
                 ports[i] = "pico" /\ \A k \in 1..(i - 1) : ports[k] # "pico"

\* C18: discovery selects the first port that answers correctly: the port the
\* polling thread is started on is the first Picoboard of the enumeration,
\* and a call of find_the_picoboard comes back empty-handed only when no
\* port of the enumeration is a Picoboard.
C18_FirstCorrectPortIsSelected ==
    /\ main = "start_thread" => (HasPico /\ port_idx = FirstPico)
    /\ main = "retry_sleep" => ~HasPico

\* C19: when no port of the enumeration is a Picoboard the polling thread is
\* never started and the process eventually exits.
C19_StartupFailsWithoutPicoboard ==
    /\ [](~HasPico => (pc = "idle" /\ cyclePubs = <<>>))
    /\ (~HasPico ~> main = "exited")

(***************************************************************************)
(* Properties of sonar.py, under SonarSpec and FairSonarSpec.              *)
(***************************************************************************)
Returned == s_pc = "idle" /\ result # <<>>

\* what C11 says of the value read() returns
SentinelsTellTheTimeouts ==
    /\ result = <<-1>> => (~saw_high /\ now - t3 > TimeoutTicks)
    /\ result = <<-2>> => (saw_high /\ ~saw_low /\ now - t1 > TimeoutTicks)
    /\ (Returned /\ ~echo_rose) => result = <<-1>>
    /\ (Returned /\ saw_high /\ ~echo_fell) => result = <<-2>>

\* C11: read() always returns; it returns -1 only when it never found the echo
\* line high and more than 30 ms have passed since the trigger, and always
\* when the line never went high; it returns -2 only when it found the line
\* high, never low, and more than 30 ms have passed since T1, and always when
\* the line stayed high.
C11_ReadReturnsAndTellsTimeoutsApart ==
    /\ [](SentinelsTellTheTimeouts)
    /\ (Reading ~> ~Reading)

\* C11 witness: read() found the echo line high, the line stayed high, and
\* read() returned -2
C11_Witness ==
    Returned /\ result = <<-2>> /\ saw_high /\ ~echo_fell /\ now - t1 > TimeoutTicks

\* C12: after the first cancel() both gpios have the modes they had before
\* the Sonar was constructed, and further calls change no mode: cancel() has
\* called set_mode twice in all, however often it ran.
C12_CancelIsIdempotent ==
    cancels >= 1 =>
        /\ gpio_mode = orig_mode
        /\ set_modes = 2
        /\ ~inited

\* C12 witness: cancel() ran twice on gpios whose modes the constructor had
\* changed
C12_Witness ==
    /\ cancels = 2
    /\ orig_mode["trig"] = "ALT0" /\ orig_mode["echo"] = "OUTPUT"
    /\ gpio_mode = orig_mode

\* C20: a result of read() that is not a sentinel is (T2 - T1) * 340 / 2 * 100
\* with T2 >= T1, so it is not negative, and read() has found the echo line
\* high and then low.
C20_DistanceIsNotASentinel ==
    (Returned /\ result # <<-1>> /\ result # <<-2>>) =>
        /\ t2 >= t1
        /\ result = <<(((t2 - t1) * 340) \div 2) * 100>>
        /\ result[1] >= 0
        /\ saw_high /\ saw_low

\* C20 witness: the echo line fell one tick (10 ms) after T1: 170 cm
C20_Witness ==
    Returned /\ saw_high /\ saw_low /\ t2 = t1 + 1 /\ result = <<17000>>

=============================================================================
